---- MODULE Spec2Model ----
(***************************************************************************)
(* Model of umbled, an IRC bot that keeps a connection open and tolerates  *)
(* errors: the loop of run(), connect(), addError(), shouldGiveUp() and    *)
(* sendMessages() of umbled.go.                                            *)
(*                                                                         *)
(* Time is counted in minutes.  Every blocking library call (and the       *)
(* one-second sleep) lets the clock advance by a value of Deltas; the      *)
(* calls to time.Now() that follow a library call read the clock as it is  *)
(* when the call returns.  The godrop client is the environment: each of   *)
(* its calls succeeds or fails nondeterministically; IsConnected() is true *)
(* from a successful Connect() until the next Close().                     *)
(***************************************************************************)
EXTENDS Integers, Sequences, FiniteSets, TLC

\* ------------------------------------------------------------------------
\* Program constants and bounds of the model

WaitPeriod == 15

NumChannels == 2

MaxErrors == 2

MaxElapsed == 16

MaxReads == 2

\* The zero time.Time of a fresh state lies more than waitPeriod before any
\* value of time.Now(); the clock of the model starts at StartTime.
ZeroTime == 0

StartTime == ZeroTime + WaitPeriod + 1

Deltas == {0, WaitPeriod, WaitPeriod + 1}

Channels == [k \in 1..NumChannels |-> "#c" \o ToString(k)]

ReplyWelcome == "001"

Commands == {ReplyWelcome, "ERROR", "PING", "NOTICE"}

EOF == "EOF"

ReadErrors == {EOF, "i/o timeout"}

DialError == "dial error"

WriteError == "write error"

\* The display string of a received message.
MsgString(cmd) == cmd \o " :server"

\* ------------------------------------------------------------------------
\* parseConfig(): the channels value.  Text is a sequence of characters.

MaxLen == 4

Alphabet == {"#", "a", ",", " "}

RECURSIVE TrimLeft(_)
TrimLeft(s) ==
  IF s # <<>> /\ Head(s) = " " THEN TrimLeft(Tail(s)) ELSE s

RECURSIVE TrimRight(_)
TrimRight(s) ==
  IF s # <<>> /\ s[Len(s)] = " " THEN TrimRight(SubSeq(s, 1, Len(s) - 1))
  ELSE s

\* strings.TrimSpace
TrimSpace(s) == TrimRight(TrimLeft(s))

\* strings.Split(s, ","): "" gives one empty piece
RECURSIVE Split(_, _)
Split(s, piece) ==
  IF s = <<>> THEN <<piece>>
  ELSE IF Head(s) = "," THEN <<piece>> \o Split(Tail(s), <<>>)
  ELSE Split(Tail(s), Append(piece, Head(s)))

\* if c[0] != '#' { return nil, fmt.Errorf("malformed channel name") }
IsChannelName_Any(c) == TRUE

IsChannelName(c) == c[1] = "#"

Rejected(why) == [err |-> why, channels |-> <<>>]

\* for _, c := range channelsRaw { ... }, with the channels found so far
RECURSIVE rangeChannels(_, _)
rangeChannels(raw, channels) ==
  IF raw = <<>> THEN [err |-> "", channels |-> channels]
  ELSE LET c == TrimSpace(Head(raw))
       IN  IF c = <<>> THEN rangeChannels(Tail(raw), channels)
           ELSE IF ~IsChannelName(c) THEN Rejected("malformed channel name")
           ELSE rangeChannels(Tail(raw), Append(channels, c))

\* The part of parseConfig that makes conf.Channels of m["channels"]
parseChannels(value) ==
  LET r == rangeChannels(Split(value, <<>>), <<>>)
  IN  IF r.err # "" THEN r
      ELSE IF Len(r.channels) = 0
      THEN Rejected("you must specify at least one channel")
      ELSE r

\* The channels value of the configuration run() is started with
RECURSIVE JoinNames(_)
JoinNames(k) ==
  IF k = 0 THEN <<>>
  ELSE IF k = 1 THEN <<"#", "c", ToString(k)>>
  ELSE JoinNames(k - 1) \o <<",", "#", "c", ToString(k)>>

ChannelsValue == JoinNames(NumChannels)

VARIABLES
  pc,                \* position of run(): the next library call or return
  connected,         \* c.IsConnected()
  registered,        \* set by c.SetRegistered(), reset by c.Close()
  now,               \* the clock, in minutes
  lastActivityTime,  \* s.lastActivityTime
  errors,            \* s.errors
  ch,                \* index of the channel of the current range loop
  i,                 \* index (from 1) of the entry of the current range loop
  ret,               \* error returned by connect / sendMessages ("" is nil)
  trace,             \* library calls of the current loop iteration
  giveUp,            \* result of shouldGiveUp() in this iteration, if called
  lastAdd,           \* arguments of the addError call of the last step
  sendOrig,          \* s.errors as it was when sendMessages was entered
  delivTo,           \* per entry of s.errors: deliveries made, per channel
  dropped,           \* delivTo of the entries the last sendMessages removed
  okAt,              \* when the last successful ReadMessage, Pong or Message
                     \* of the connected branch returned in this iteration
  iterLast,          \* s.lastActivityTime as the iteration found it
  connAt,            \* when connect last returned nil
  confIn,            \* the text of the channels value of the config file
  confOut            \* what parseConfig made of it

vars == <<pc, connected, registered, now, lastActivityTime, errors, ch, i,
          ret, trace, giveUp, lastAdd, sendOrig, delivTo, dropped, okAt,
          iterLast, connAt, confIn, confOut>>

conf == <<confIn, confOut>>

\* ------------------------------------------------------------------------
\* Formatting

Pad2(n) == IF n < 10 THEN "0" \o ToString(n) ELSE ToString(n)

\* time.Now().Format(time.RFC3339), for a clock counting minutes
RFC3339(t) ==
  "0001-01-01T" \o Pad2((t \div 60) % 24) \o ":" \o Pad2(t % 60) \o ":00Z"

RECURSIVE ExtraArgs(_)
ExtraArgs(args) ==
  IF Len(args) = 1 THEN "string=" \o Head(args)
  ELSE "string=" \o Head(args) \o ", " \o ExtraArgs(Tail(args))

\* fmt.Sprintf for a format given as a sequence of pieces, each either the
\* verb "%s" or literal text; args are strings.
RECURSIVE Sprintf(_, _)
Sprintf(format, args) ==
  IF format = <<>>
  THEN IF args = <<>> THEN "" ELSE "%!(EXTRA " \o ExtraArgs(args) \o ")"
  ELSE IF Head(format) = "%s"
       THEN IF args = <<>>
            THEN "%!s(MISSING)" \o Sprintf(Tail(format), args)
            ELSE Head(args) \o Sprintf(Tail(format), Tail(args))
       ELSE Head(format) \o Sprintf(Tail(format), args)

\* ------------------------------------------------------------------------
\* The methods of state

addError_NoSeparator(log, t, format, args) ==
  Append(log, Sprintf(<<"%s">> \o format, <<RFC3339(t)>> \o args))

addError_Prepend(log, t, format, args) ==
  <<Sprintf(<<"%s", ": ">> \o format, <<RFC3339(t)>> \o args)>> \o log

addError(log, t, format, args) ==
  LET finalArgs == IF Len(args) > 0 THEN <<RFC3339(t)>> \o args
                   ELSE <<RFC3339(t)>>
      m == Sprintf(<<"%s", ": ">> \o format, finalArgs)
  IN  Append(log, m)

shouldGiveUp_AtThreshold(t, last) == t - last >= WaitPeriod

shouldGiveUp(t, last) == t - last > WaitPeriod

\* ------------------------------------------------------------------------
\* Bookkeeping

Ev(op, c, text, cmd, err) ==
  [op |-> op, ch |-> c, text |-> text, cmd |-> cmd, err |-> err]

NoAdd == [called |-> FALSE, format |-> <<>>, args |-> <<>>]

Add(format, args) == [called |-> TRUE, format |-> format, args |-> args]

NoDeliveries == [c \in 1..NumChannels |-> 0]

CloseEv == Ev("Close", 0, "", "", "")

\* The clock may advance by d.
CanAdvance(d) == now + d <= StartTime + MaxElapsed

\* The log has room for one more entry after keeping n entries.
CanRecord(n) == n < MaxErrors

BoolStr(b) == IF b THEN "true" ELSE "false"

\* No such time yet
NoTime == 0 - 1

\* The library call made by a step taken at a position where run() or
\* connect() is about to call the library
StepEv == trace'[Len(trace) + 1]

\* okAt after a step that called ReadMessage, Pong or Message
StampOk == okAt' = IF StepEv.err = "" THEN now' ELSE okAt

\* c.Close(): the handle is disconnected afterwards (idempotent).  tr is the
\* trace of the iteration up to the call.
Close(tr) ==
  /\ connected' = FALSE
  /\ registered' = FALSE
  /\ trace' = Append(tr, CloseEv)

NoClose(tr) ==
  /\ UNCHANGED <<connected, registered>>
  /\ trace' = tr

Record_Drop(t, format, args) ==
  /\ UNCHANGED <<errors, delivTo>>
  /\ lastAdd' = NoAdd

\* s.addError(format, args...) at clock t
Record(t, format, args) ==
  /\ errors' = addError(errors, t, format, args)
  /\ delivTo' = Append(delivTo, NoDeliveries)
  /\ lastAdd' = Add(format, args)

NoRecord ==
  /\ UNCHANGED <<errors, delivTo>>
  /\ lastAdd' = NoAdd

\* ------------------------------------------------------------------------
\* Initial state: run() has made s := &state{} and is at the top of the loop

Init ==
  /\ pc = "sleep"
  /\ connected = FALSE
  /\ registered = FALSE
  /\ now = StartTime
  /\ lastActivityTime = ZeroTime
  /\ errors = <<>>
  /\ ch = 0
  /\ i = 0
  /\ ret = ""
  /\ trace = <<>>
  /\ giveUp = "none"
  /\ lastAdd = NoAdd
  /\ sendOrig = <<>>
  /\ delivTo = <<>>
  /\ dropped = <<>>
  /\ okAt = NoTime
  /\ iterLast = ZeroTime
  /\ connAt = NoTime
  /\ confIn = ChannelsValue
  /\ confOut = parseChannels(TrimSpace(confIn))

\* ------------------------------------------------------------------------
\* run(): top of the loop

\* time.Sleep(time.Second); if !c.IsConnected() { connect ... } else read
Sleep ==
  /\ pc = "sleep"
  /\ \E d \in Deltas:
       /\ CanAdvance(d)
       /\ now' = now + d
  /\ trace' = <<Ev("IsConnected", 0, BoolStr(connected), "", "")>>
  /\ pc' = IF ~connected THEN "Connect" ELSE "ReadMessage"
  /\ ch' = 0
  /\ i' = 0
  /\ ret' = ""
  /\ giveUp' = "none"
  /\ lastAdd' = NoAdd
  /\ sendOrig' = <<>>
  /\ dropped' = <<>>
  /\ okAt' = NoTime
  /\ iterLast' = lastActivityTime
  /\ UNCHANGED <<connected, registered, lastActivityTime, errors, delivTo,
                 connAt, conf>>

\* ------------------------------------------------------------------------
\* connect()

\* c.Connect()
ConnectCall ==
  /\ pc = "Connect"
  /\ \E d \in Deltas, ok \in BOOLEAN:
       /\ CanAdvance(d)
       /\ now' = now + d
       /\ IF ok
          THEN /\ connected' = TRUE
               /\ trace' = Append(trace, Ev("Connect", 0, "", "", ""))
               /\ ret' = ""
               /\ pc' = "Register"
          ELSE /\ CanRecord(Len(errors))
               /\ connected' = connected
               /\ trace' = Append(trace, Ev("Connect", 0, "", "", DialError))
               /\ ret' = DialError
               /\ pc' = "connectReturned"
  /\ lastAdd' = NoAdd
  /\ UNCHANGED <<registered, lastActivityTime, errors, ch, i, giveUp,
                 sendOrig, delivTo, dropped>>
  /\ UNCHANGED <<okAt, iterLast, connAt, conf>>

\* c.Register()
RegisterCall ==
  /\ pc = "Register"
  /\ \E d \in Deltas, ok \in BOOLEAN:
       /\ CanAdvance(d)
       /\ now' = now + d
       /\ IF ok
          THEN /\ trace' = Append(trace, Ev("Register", 0, "", "", ""))
               /\ ret' = ""
               /\ pc' = "connectRead"
          ELSE /\ CanRecord(Len(errors))
               /\ trace' = Append(trace, Ev("Register", 0, "", "", WriteError))
               /\ ret' = WriteError
               /\ pc' = "connectReturned"
  /\ lastAdd' = NoAdd
  /\ UNCHANGED <<connected, registered, lastActivityTime, errors, ch, i,
                 giveUp, sendOrig, delivTo, dropped>>
  /\ UNCHANGED <<okAt, iterLast, connAt, conf>>

NumReads(tr) == Cardinality({p \in 1..Len(tr) : tr[p].op = "ReadMessage"})

\* if m.Command == irc.ReplyWelcome
IsWelcome_AnyReply(cmd) == cmd # "ERROR"

IsWelcome(cmd) == cmd = ReplyWelcome

\* After the welcome reply: the first Join, or return nil without channels
AfterWelcome(tr) ==
  /\ registered' = TRUE
  /\ trace' = Append(tr, Ev("SetRegistered", 0, "", "", ""))
  /\ ret' = ""
  /\ IF NumChannels = 0
     THEN pc' = "connectReturned" /\ ch' = ch
     ELSE pc' = "Join" /\ ch' = 1

\* The read loop of connect(): c.ReadMessage(), then the welcome reply starts
\* the joins, ERROR fails, anything else reads again
ConnectRead ==
  /\ pc = "connectRead"
  /\ \E d \in Deltas:
       /\ CanAdvance(d)
       /\ now' = now + d
  /\ \/ \E err \in ReadErrors:
          /\ CanRecord(Len(errors))
          /\ trace' = Append(trace, Ev("ReadMessage", 0, "", "", err))
          /\ ret' = err
          /\ pc' = "connectReturned"
          /\ UNCHANGED <<registered, ch>>
     \/ \E cmd \in Commands:
          LET tr == Append(trace, Ev("ReadMessage", 0, "", cmd, ""))
          IN  IF IsWelcome(cmd)
              THEN AfterWelcome(tr)
              ELSE IF cmd = "ERROR"
              THEN /\ CanRecord(Len(errors))
                   /\ trace' = tr
                   /\ ret' = Sprintf(<<"received ERROR: ", "%s">>,
                                     <<MsgString(cmd)>>)
                   /\ pc' = "connectReturned"
                   /\ UNCHANGED <<registered, ch>>
              ELSE /\ NumReads(trace) < MaxReads
                   /\ trace' = tr
                   /\ ret' = ""
                   /\ pc' = "connectRead"
                   /\ UNCHANGED <<registered, ch>>
  /\ lastAdd' = NoAdd
  /\ UNCHANGED <<connected, lastActivityTime, errors, i, giveUp, sendOrig,
                 delivTo, dropped>>
  /\ UNCHANGED <<okAt, iterLast, connAt, conf>>

\* for _, ch := range conf.Channels { c.Join(ch) }
JoinCall ==
  /\ pc = "Join"
  /\ \E d \in Deltas, ok \in BOOLEAN:
       /\ CanAdvance(d)
       /\ now' = now + d
       /\ IF ok
          THEN /\ trace' = Append(trace, Ev("Join", ch, "", "", ""))
               /\ ret' = ""
               /\ IF ch < NumChannels
                  THEN pc' = "Join" /\ ch' = ch + 1
                  ELSE pc' = "connectReturned" /\ ch' = ch
          ELSE /\ CanRecord(Len(errors))
               /\ trace' = Append(trace, Ev("Join", ch, "", "", WriteError))
               /\ ret' = Sprintf(<<"error joining channel: ", "%s", ": ", "%s">>,
                                 <<Channels[ch], WriteError>>)
               /\ pc' = "connectReturned"
               /\ ch' = ch
  /\ lastAdd' = NoAdd
  /\ UNCHANGED <<connected, registered, lastActivityTime, errors, i, giveUp,
                 sendOrig, delivTo, dropped>>
  /\ UNCHANGED <<okAt, iterLast, connAt, conf>>

RunAfterConnect_NoClose ==
  /\ pc = "connectReturned"
  /\ IF ret # ""
     THEN /\ Record(now, <<"error connecting: ", "%s">>, <<ret>>)
          /\ NoClose(trace)
          /\ UNCHANGED lastActivityTime
     ELSE /\ NoRecord
          /\ NoClose(trace)
          /\ lastActivityTime' = now
  /\ pc' = "sleep"
  /\ connAt' = IF ret # "" THEN connAt ELSE now
  /\ UNCHANGED <<now, ch, i, ret, giveUp, sendOrig, dropped>>
  /\ UNCHANGED <<okAt, iterLast, conf>>

RunAfterConnect_NoMark ==
  /\ pc = "connectReturned"
  /\ IF ret # ""
     THEN /\ Record(now, <<"error connecting: ", "%s">>, <<ret>>)
          /\ Close(trace)
     ELSE /\ NoRecord
          /\ NoClose(trace)
  /\ pc' = "sleep"
  /\ connAt' = IF ret # "" THEN connAt ELSE now
  /\ UNCHANGED <<now, lastActivityTime, ch, i, ret, giveUp, sendOrig, dropped>>
  /\ UNCHANGED <<okAt, iterLast, conf>>

\* run(): if err := connect(conf, c); err != nil { addError; Close; continue }
\*        s.lastActivityTime = time.Now(); continue
RunAfterConnect ==
  /\ pc = "connectReturned"
  /\ IF ret # ""
     THEN /\ Record(now, <<"error connecting: ", "%s">>, <<ret>>)
          /\ Close(trace)
          /\ UNCHANGED lastActivityTime
     ELSE /\ NoRecord
          /\ NoClose(trace)
          /\ lastActivityTime' = now
  /\ pc' = "sleep"
  /\ connAt' = IF ret # "" THEN connAt ELSE now
  /\ UNCHANGED <<now, ch, i, ret, giveUp, sendOrig, dropped>>
  /\ UNCHANGED <<okAt, iterLast, conf>>

\* ------------------------------------------------------------------------
\* run(): the connected branch

\* if s.shouldGiveUp() || err == io.EOF
ReadFailCloses_TimerOnly(t, last, err) == shouldGiveUp(t, last)

ReadFailCloses_Always(t, last, err) == TRUE

ReadFailCloses_EOFOnly(t, last, err) == err = EOF

ReadFailCloses(t, last, err) == shouldGiveUp(t, last) \/ err = EOF

\* s.lastActivityTime = time.Now() after a successful read
MarkRead_Skip(t, last) == last

MarkRead(t, last) == t

\* if m.Command == "ERROR"
IsErrorCmd_Never(cmd) == FALSE

IsErrorCmd(cmd) == cmd = "ERROR"

\* if m.Command != "PING" { continue }, else on to c.Pong(m)
AfterRead_AlwaysPong(cmd) == "Pong"

AfterRead(cmd) == IF cmd # "PING" THEN "sleep" ELSE "Pong"

\* m, err := c.ReadMessage() and what run() does with it up to the next
\* library call
ReadMessageCall ==
  /\ pc = "ReadMessage"
  /\ \E d \in Deltas:
       /\ CanAdvance(d)
       /\ now' = now + d
  /\ \/ \E err \in ReadErrors:
          LET tr == Append(trace, Ev("ReadMessage", 0, "", "", err))
          IN  /\ CanRecord(Len(errors))
              /\ Record(now', <<"error reading: ", "%s">>, <<err>>)
              /\ giveUp' = BoolStr(shouldGiveUp(now', lastActivityTime))
              /\ IF ReadFailCloses(now', lastActivityTime, err)
                 THEN Close(tr)
                 ELSE NoClose(tr)
              /\ pc' = "sleep"
              /\ UNCHANGED lastActivityTime
     \/ \E cmd \in Commands:
          LET tr == Append(trace, Ev("ReadMessage", 0, "", cmd, ""))
          IN  /\ lastActivityTime' = MarkRead(now', lastActivityTime)
              /\ giveUp' = giveUp
              /\ IF IsErrorCmd(cmd)
                 THEN /\ CanRecord(Len(errors))
                      /\ Record(now', <<"got ERROR: ", "%s">>,
                                <<MsgString(cmd)>>)
                      /\ Close(tr)
                      /\ pc' = "sleep"
                 ELSE /\ NoRecord
                      /\ NoClose(tr)
                      /\ pc' = AfterRead(cmd)
  /\ UNCHANGED <<ch, i, ret, sendOrig, dropped>>
  /\ StampOk
  /\ UNCHANGED <<iterLast, connAt, conf>>

\* c.Pong(m); on success s.lastActivityTime = time.Now() and sendMessages is
\* entered, which returns nil at once when there is nothing to deliver
PongCall ==
  /\ pc = "Pong"
  /\ \E d \in Deltas, ok \in BOOLEAN:
       /\ CanAdvance(d)
       /\ now' = now + d
       /\ IF ~ok
          THEN /\ CanRecord(Len(errors))
               /\ Record(now', <<"error PONGing: ", "%s">>, <<WriteError>>)
               /\ giveUp' = BoolStr(shouldGiveUp(now', lastActivityTime))
               /\ IF shouldGiveUp(now', lastActivityTime)
                  THEN Close(Append(trace, Ev("Pong", 0, "", "", WriteError)))
                  ELSE NoClose(Append(trace, Ev("Pong", 0, "", "", WriteError)))
               /\ pc' = "sleep"
               /\ UNCHANGED <<lastActivityTime, ch, i, sendOrig, dropped>>
          ELSE /\ lastActivityTime' = now'
               /\ NoClose(Append(trace, Ev("Pong", 0, "", "", "")))
               /\ giveUp' = giveUp
               /\ sendOrig' = errors
               /\ lastAdd' = NoAdd
               /\ IF NumChannels = 0 \/ Len(errors) = 0
                  THEN /\ errors' = <<>>
                       /\ delivTo' = <<>>
                       /\ dropped' = delivTo
                       /\ pc' = "sendReturned"
                       /\ UNCHANGED <<ch, i>>
                  ELSE /\ pc' = "Message"
                       /\ ch' = 1
                       /\ i' = 1
                       /\ UNCHANGED <<errors, delivTo, dropped>>
  /\ UNCHANGED ret
  /\ StampOk
  /\ UNCHANGED <<iterLast, connAt, conf>>

\* ------------------------------------------------------------------------
\* sendMessages()

\* s.errors = s.errors[i:], for the index i (from 1) of the failed entry
Truncate_SkipFailed(log, k) == SubSeq(log, k + 1, Len(log))

Truncate(log, k) == SubSeq(log, k, Len(log))

\* s.errors = nil
Cleared_KeepLog(log) == log

Cleared(log) == <<>>

Delivered(d, k, c) == [d EXCEPT ![k][c] = @ + 1]

\* c.Message(ch, e) for the entry i of the channel ch, and the range loops up
\* to the next call or the return
MessageCall ==
  /\ pc = "Message"
  /\ \E d \in Deltas, ok \in BOOLEAN:
       /\ CanAdvance(d)
       /\ now' = now + d
       /\ IF ~ok
          THEN /\ CanRecord(Len(errors) - (i - 1))
               /\ trace' = Append(trace,
                                  Ev("Message", ch, errors[i], "", WriteError))
               /\ errors' = Truncate(errors, i)
               /\ delivTo' = SubSeq(delivTo, i, Len(delivTo))
               /\ dropped' = SubSeq(delivTo, 1, i - 1)
               /\ ret' = WriteError
               /\ pc' = "sendReturned"
               /\ UNCHANGED <<lastActivityTime, ch, i>>
          ELSE /\ trace' = Append(trace, Ev("Message", ch, errors[i], "", ""))
               /\ lastActivityTime' = now'
               /\ ret' = ""
               /\ IF i < Len(errors)
                  THEN /\ i' = i + 1
                       /\ delivTo' = Delivered(delivTo, i, ch)
                       /\ pc' = "Message"
                       /\ UNCHANGED <<ch, errors, dropped>>
                  ELSE IF ch < NumChannels
                  THEN /\ ch' = ch + 1
                       /\ i' = 1
                       /\ delivTo' = Delivered(delivTo, i, ch)
                       /\ pc' = "Message"
                       /\ UNCHANGED <<errors, dropped>>
                  ELSE /\ errors' = Cleared(errors)
                       /\ delivTo' = SubSeq(delivTo, 1, Len(errors'))
                       /\ dropped' = SubSeq(Delivered(delivTo, i, ch),
                                            Len(errors') + 1, Len(delivTo))
                       /\ pc' = "sendReturned"
                       /\ UNCHANGED <<ch, i>>
  /\ lastAdd' = NoAdd
  /\ UNCHANGED <<connected, registered, giveUp, sendOrig>>
  /\ StampOk
  /\ UNCHANGED <<iterLast, connAt, conf>>

\* run(): if err := sendMessages(conf, c, s); err != nil { addError;
\*        if s.shouldGiveUp() { Close }; continue }
RunAfterSend ==
  /\ pc = "sendReturned"
  /\ IF ret # ""
     THEN /\ Record(now, <<"error messaging: ", "%s">>, <<ret>>)
          /\ giveUp' = BoolStr(shouldGiveUp(now, lastActivityTime))
          /\ IF shouldGiveUp(now, lastActivityTime)
             THEN Close(trace)
             ELSE NoClose(trace)
     ELSE /\ NoRecord
          /\ NoClose(trace)
          /\ giveUp' = giveUp
  /\ pc' = "sleep"
  /\ UNCHANGED <<now, lastActivityTime, ch, i, ret, sendOrig, dropped>>
  /\ UNCHANGED <<okAt, iterLast, connAt, conf>>

\* ------------------------------------------------------------------------

Next ==
  \/ Sleep
  \/ ConnectCall
  \/ RegisterCall
  \/ ConnectRead
  \/ JoinCall
  \/ RunAfterConnect
  \/ ReadMessageCall
  \/ PongCall
  \/ MessageCall
  \/ RunAfterSend

Spec == Init /\ [][Next]_vars

\* main() up to run(): the channels value of the file is any text of at most
\* MaxLen characters; the other keys are taken to be valid
NotParsed == [err |-> "not parsed", channels |-> <<>>]

Texts == UNION {[1..n -> Alphabet] : n \in 0..MaxLen}

InitConfig ==
  /\ pc = "parseConfig"
  /\ connected = FALSE
  /\ registered = FALSE
  /\ now = StartTime
  /\ lastActivityTime = ZeroTime
  /\ errors = <<>>
  /\ ch = 0
  /\ i = 0
  /\ ret = ""
  /\ trace = <<>>
  /\ giveUp = "none"
  /\ lastAdd = NoAdd
  /\ sendOrig = <<>>
  /\ delivTo = <<>>
  /\ dropped = <<>>
  /\ okAt = NoTime
  /\ iterLast = ZeroTime
  /\ connAt = NoTime
  /\ confIn \in Texts
  /\ confOut = NotParsed

\* value := strings.TrimSpace(pieces[1]); conf.Channels from m["channels"];
\* log.Fatal(err) when parseConfig returns an error
ParseConfig ==
  /\ pc = "parseConfig"
  /\ confOut' = parseChannels(TrimSpace(confIn))
  /\ pc' = IF confOut'.err # "" THEN "fatal" ELSE "run"
  /\ UNCHANGED <<connected, registered, now, lastActivityTime, errors, ch, i,
                 ret, trace, giveUp, lastAdd, sendOrig, delivTo, dropped,
                 okAt, iterLast, connAt, confIn>>

NextConfig == ParseConfig

SpecConfig == InitConfig /\ [][NextConfig]_vars

\* The loop is sequential code: as long as the library calls return, the
\* step it is at is taken.
SpecLive == Init /\ [][Next]_vars /\ WF_vars(Next)

TypeOK ==
  /\ pc \in {"sleep", "Connect", "Register", "connectRead", "Join",
             "connectReturned", "ReadMessage", "Pong", "Message",
             "sendReturned"}
  /\ connected \in BOOLEAN
  /\ registered \in BOOLEAN
  /\ now \in StartTime..(StartTime + MaxElapsed)
  /\ lastActivityTime \in ZeroTime..now
  /\ Len(errors) <= MaxErrors
  /\ Len(delivTo) = Len(errors)

\* ------------------------------------------------------------------------
\* Properties

\* The calls of c.Message in a trace, in the order they were made
MsgEvents(tr) == SelectSeq(tr, LAMBDA e : e.op = "Message")

HasEv(tr, op) == \E p \in 1..Len(tr) : tr[p].op = op

\* The iteration found the handle connected / disconnected
MainIteration == Len(trace) > 0 /\ trace[1].text = "true"

ConnectIteration == Len(trace) > 0 /\ trace[1].text = "false"

SendFailed == pc = "sendReturned" /\ ret # ""

SendSucceeded == pc = "sendReturned" /\ ret = ""

\* Index (from 1) of the entry whose delivery failed: the failed call is the
\* last one, and the entries before it were delivered to the same channel
FailedIndex ==
  LET ms == MsgEvents(trace)
  IN  Cardinality({p \in 1..Len(ms) : ms[p].ch = ms[Len(ms)].ch})

\* C1: when sendMessages returns an error, the first (and only) failed
\* delivery being that of the entry at index k, the log is exactly the
\* entries k..N-1 of the log it was entered with, in their order.
C1_PartialFailure ==
  SendFailed =>
    LET ms == MsgEvents(trace)
    IN  /\ Len(ms) > 0
        /\ ms[Len(ms)].err # ""
        /\ \A p \in 1..(Len(ms) - 1) : ms[p].err = ""
        /\ ms[Len(ms)].text = sendOrig[FailedIndex]
        /\ errors = SubSeq(sendOrig, FailedIndex, Len(sendOrig))

C1_Witness ==
  /\ SendFailed
  /\ Len(sendOrig) = 2
  /\ FailedIndex = 2
  /\ sendOrig[1] # sendOrig[2]

\* C2: no entry leaves the log before it has been delivered to every
\* configured channel: the entries sendMessages removed were all delivered
\* to each channel.
C2_UndeliveredKept ==
  \A j \in 1..Len(dropped) : \A c \in 1..NumChannels : dropped[j][c] > 0

\* The deliveries of a full flush of log: every channel in configured order
\* and, within a channel, every entry in log order
AllDeliveries(log) ==
  [p \in 1..(NumChannels * Len(log)) |->
     Ev("Message", ((p - 1) \div Len(log)) + 1,
        log[((p - 1) % Len(log)) + 1], "", "")]

\* C3: when sendMessages returns nil, the deliveries it issued are exactly
\* every (channel, entry) pair, channel by channel in configured order and in
\* log order within a channel, and the log is empty.
C3_FullSuccess ==
  SendSucceeded =>
    /\ MsgEvents(trace) = AllDeliveries(sendOrig)
    /\ errors = <<>>

C3_Witness ==
  /\ SendSucceeded
  /\ Len(sendOrig) = 2
  /\ Len(MsgEvents(trace)) = 2 * NumChannels

\* A read of the connected branch returned io.EOF in this iteration
MainReadEOF ==
  /\ MainIteration
  /\ \E p \in 1..Len(trace) :
       trace[p].op = "ReadMessage" /\ trace[p].err = EOF

\* C4: when ReadMessage in the main loop returns io.EOF the connection is
\* closed in that iteration, whatever lastActivityTime is, and the next
\* iteration finds the handle disconnected and calls connect.
C4_EOFForcesClose ==
  /\ [](MainReadEOF =>
          /\ pc = "sleep"
          /\ ~connected
          /\ trace[Len(trace)] = CloseEv)
  /\ [][(MainReadEOF /\ pc = "sleep") =>
          /\ pc' = "Connect"
          /\ trace' = <<Ev("IsConnected", 0, "false", "", "")>>]_vars

C4_Witness ==
  /\ MainReadEOF
  /\ now = lastActivityTime
  /\ ~connected

\* C5: the give-up decision is true exactly when now - lastActivityTime is
\* strictly greater than 15 minutes: false at 0, false at 15, true at 16.
C5_GiveUpStrict ==
  (pc = "sleep" /\ giveUp # "none") =>
    LET elapsed == now - lastActivityTime
    IN  /\ (giveUp = "true") <=> (elapsed > 15)
        /\ elapsed = 0 => giveUp = "false"
        /\ elapsed = 15 => giveUp = "false"
        /\ elapsed = 16 => giveUp = "true"

C5_Witness ==
  /\ pc = "sleep"
  /\ giveUp = "false"
  /\ now - lastActivityTime = 15

\* The calls of c.Join in a trace, in the order they were made
JoinEvents(tr) == SelectSeq(tr, LAMBDA e : e.op = "Join")

\* connect() has returned in this iteration, with an error / with nil
ConnectReturned == ConnectIteration /\ pc \in {"connectReturned", "sleep"}

ConnectFailed == ConnectReturned /\ ret # ""

ConnectSucceeded == ConnectReturned /\ ret = ""

\* C6: no Join is issued before a welcome reply was read; the Joins go
\* through the configured channels in order, one each; connect returns nil
\* only after every Join succeeded; a failed Join is the last one and makes
\* connect fail; an ERROR command or a failed read makes connect fail with no
\* Join issued.
C6_JoinProtocol ==
  ConnectIteration =>
    LET js == JoinEvents(trace)
    IN  /\ \A p \in 1..Len(trace) :
             trace[p].op = "Join" =>
               \E q \in 1..(p - 1) :
                  /\ trace[q].op = "ReadMessage"
                  /\ trace[q].cmd = ReplyWelcome
                  /\ trace[q].err = ""
        /\ Len(js) <= NumChannels
        /\ \A n \in 1..Len(js) : js[n].ch = n
        /\ \A n \in 1..(Len(js) - 1) : js[n].err = ""
        /\ ConnectSucceeded =>
             /\ Len(js) = NumChannels
             /\ \A n \in 1..Len(js) : js[n].err = ""
        /\ (Len(js) > 0 /\ js[Len(js)].err # "") => ConnectFailed
        /\ \A p \in 1..Len(trace) :
             (trace[p].op = "ReadMessage"
                /\ (trace[p].cmd = "ERROR" \/ trace[p].err # "")) =>
               /\ ConnectFailed
               /\ Len(js) = 0

C6_Witness ==
  /\ ConnectFailed
  /\ Len(JoinEvents(trace)) = 2
  /\ JoinEvents(trace)[2].err # ""
  /\ \E p \in 1..Len(trace) : trace[p].cmd = "NOTICE"

\* A call of connect() failed: Connect, Register, ReadMessage or Join
\* returned an error or ReadMessage returned an ERROR command
ConnectCallFailed(e) == e.err # "" \/ (e.op = "ReadMessage" /\ e.cmd = "ERROR")

\* C7: every failure inside connect makes connect return an error; when
\* connect returns an error the loop records one error, closes the handle
\* and leaves lastActivityTime alone (as does every step of a connect that
\* fails), and an iteration that finds the handle disconnected calls
\* connect.
C7_ConnectFailure ==
  /\ [][(pc \in {"Connect", "Register", "connectRead", "Join"}
           /\ ConnectCallFailed(trace'[Len(trace')])) =>
          /\ pc' = "connectReturned"
          /\ ret' # ""]_vars
  /\ [][(pc \in {"Connect", "Register", "connectRead", "Join"}) =>
          /\ lastActivityTime' = lastActivityTime
          /\ errors' = errors]_vars
  /\ [][(pc = "connectReturned" /\ ret # "") =>
          /\ Len(errors') = Len(errors) + 1
          /\ trace' = Append(trace, CloseEv)
          /\ ~connected'
          /\ lastActivityTime' = lastActivityTime
          /\ pc' = "sleep"]_vars
  /\ [][(pc = "sleep" /\ ~connected) =>
          /\ pc' = "Connect"
          /\ trace' = <<Ev("IsConnected", 0, "false", "", "")>>]_vars

C7_Witness ==
  /\ ConnectFailed
  /\ pc = "sleep"
  /\ HasEv(trace, "Join")
  /\ ~connected
  /\ Len(errors) = 2

\* C8: a call of addError makes the log one entry longer, leaves the
\* entries that were queued as they were, and the new last entry is the
\* timestamp of the call, then ": ", then the formatted message.
C8_AddErrorAppends ==
  [][lastAdd'.called =>
       /\ Len(errors') = Len(errors) + 1
       /\ SubSeq(errors', 1, Len(errors)) = errors
       /\ errors'[Len(errors')] =
            RFC3339(now') \o ": " \o Sprintf(lastAdd'.format, lastAdd'.args)]_vars

C8_Witness ==
  /\ lastAdd.called
  /\ Len(errors) = 2
  /\ errors[2] = RFC3339(now) \o ": error PONGing: write error"

\* C9: every failure of connect, ReadMessage, Pong or sendMessages and
\* every ERROR command read by the loop appends exactly one entry to the log
\* and takes the loop back to its top; no reachable state is terminal.
C9_FailuresNonFatal ==
  /\ [][((pc \in {"connectReturned", "sendReturned"}) /\ ret # "") =>
          /\ Len(errors') = Len(errors) + 1
          /\ pc' = "sleep"]_vars
  /\ [][(pc = "ReadMessage" /\ (StepEv.err # "" \/ StepEv.cmd = "ERROR")) =>
          /\ Len(errors') = Len(errors) + 1
          /\ pc' = "sleep"]_vars
  /\ [][(pc = "Pong" /\ StepEv.err # "") =>
          /\ Len(errors') = Len(errors) + 1
          /\ pc' = "sleep"]_vars
  /\ [][(pc = "sleep") => pc' \in {"Connect", "ReadMessage"}]_vars
  /\ [](ENABLED <<Next>>_vars)

C9_Witness ==
  /\ pc = "sleep"
  /\ MainIteration
  /\ HasEv(trace, "Pong")
  /\ trace[Len(trace)].err # ""
  /\ connected
  /\ Len(errors) = 2

\* A call of the connected branch failed in this iteration
MainFailure ==
  \E p \in 1..Len(trace) :
     /\ trace[p].op \in {"ReadMessage", "Pong", "Message"}
     /\ trace[p].err # ""

MainReadError ==
  \E p \in 1..Len(trace) :
     trace[p].op = "ReadMessage" /\ trace[p].cmd = "ERROR"

\* C10: an iteration that finds the session connected closes it only if it
\* read an ERROR command, or a read returned io.EOF, or a read, pong or
\* delivery failed with now - lastActivityTime > waitPeriod; after a failure
\* other than io.EOF within the wait period the connection is still open and
\* the next iteration reads again.
C10_CloseCauses ==
  /\ [](MainIteration =>
          /\ HasEv(trace, "Close") =>
               \/ MainReadError
               \/ MainReadEOF
               \/ (MainFailure /\ now - lastActivityTime > WaitPeriod)
          /\ (pc = "sleep" /\ MainFailure /\ ~MainReadEOF
                /\ now - lastActivityTime <= WaitPeriod) =>
               /\ ~HasEv(trace, "Close")
               /\ connected
               /\ registered
          /\ HasEv(trace, "Close") <=> ~connected)
  /\ [][(pc = "sleep" /\ connected) =>
          /\ pc' = "ReadMessage"
          /\ connected'
          /\ registered]_vars

C10_Witness ==
  /\ pc = "sleep"
  /\ MainIteration
  /\ MainFailure
  /\ ~MainReadEOF
  /\ now - lastActivityTime = WaitPeriod
  /\ connected

\* C11 as stated: after every successful Connect, Register, ReadMessage,
\* Pong, Join or Message call lastActivityTime is the time of that success.
C11_EverySuccessMarks ==
  [][((pc \in {"Connect", "Register", "connectRead", "Join", "ReadMessage",
               "Pong", "Message"})
        /\ StepEv.err = "") =>
       lastActivityTime' = now']_vars

\* C11, amended: lastActivityTime becomes the time of the success after every
\* successful ReadMessage and Pong of the connected branch and every
\* successful Message; the calls made inside connect leave it unchanged, and
\* it becomes the time connect returned only when connect returns nil.
C11_ActivityMarks ==
  /\ [][((pc \in {"ReadMessage", "Pong", "Message"}) /\ StepEv.err = "") =>
          lastActivityTime' = now']_vars
  /\ [][(pc \in {"Connect", "Register", "connectRead", "Join"}) =>
          lastActivityTime' = lastActivityTime]_vars
  /\ [][(pc = "connectReturned") =>
          /\ now' = now
          /\ lastActivityTime' = IF ret = "" THEN now
                                 ELSE lastActivityTime]_vars

C11_Witness ==
  /\ pc = "sleep"
  /\ ConnectSucceeded
  /\ lastActivityTime = now
  /\ now > StartTime

\* log2 is log1 without some of its first entries
IsSuffix(log2, log1) ==
  /\ Len(log2) <= Len(log1)
  /\ log2 = SubSeq(log1, Len(log1) - Len(log2) + 1, Len(log1))

\* log2 is log1 followed by one more entry
IsAppend(log2, log1) ==
  /\ Len(log2) = Len(log1) + 1
  /\ SubSeq(log2, 1, Len(log1)) = log1

\* C12: a step inside sendMessages leaves the log unchanged or removes
\* entries at its front (all of them on full success); every other step leaves
\* the log unchanged or appends one entry at its end.  No step changes or
\* reorders the entries that stay.
C12_LogAppendOnly ==
  /\ [][(pc = "Message") =>
          /\ IsSuffix(errors', errors)
          /\ (StepEv.err = "" /\ pc' = "Message") => errors' = errors
          /\ (StepEv.err = "" /\ pc' # "Message") => errors' = <<>>]_vars
  /\ [][(pc # "Message") =>
          \/ errors' = errors
          \/ IsAppend(errors', errors) /\ lastAdd'.called]_vars

C12_Witness ==
  /\ pc = "sleep"
  /\ MainIteration
  /\ ret # ""
  /\ Len(dropped) = 1
  /\ Len(errors) = 2
  /\ errors[1] = sendOrig[2]

\* C15: when the main loop reads a message whose command is ERROR it
\* records one error and closes the connection in that iteration whatever
\* lastActivityTime is, and calls neither Pong nor Message.
C15_ErrorCommand ==
  /\ []((MainIteration /\ MainReadError) =>
          /\ pc = "sleep"
          /\ ~connected
          /\ trace = <<Ev("IsConnected", 0, "true", "", ""),
                       Ev("ReadMessage", 0, "", "ERROR", ""),
                       CloseEv>>
          /\ lastAdd = Add(<<"got ERROR: ", "%s">>, <<MsgString("ERROR")>>))
  /\ [][(pc = "ReadMessage" /\ StepEv.cmd = "ERROR") =>
          IsAppend(errors', errors)]_vars

C15_Witness ==
  /\ MainIteration
  /\ MainReadError
  /\ ~connected
  /\ now = lastActivityTime
  /\ Len(errors) = 2

\* C16: a delivery (c.Message) is made only in an iteration that found the
\* handle connected, read a PING and then had c.Pong succeed, all before the
\* delivery; none is made after a failed Pong or a message other than PING.
C16_FlushAfterPong ==
  \A p \in 1..Len(trace) :
     trace[p].op = "Message" =>
       /\ MainIteration
       /\ trace[2] = Ev("ReadMessage", 0, "", "PING", "")
       /\ trace[3] = Ev("Pong", 0, "", "", "")
       /\ p > 3
       /\ \A q \in 1..Len(trace) : trace[q].op = "Pong" => q = 3
       /\ \A q \in 1..Len(trace) : trace[q].op = "ReadMessage" => q = 2

C16_Witness ==
  /\ pc = "sleep"
  /\ Len(MsgEvents(trace)) = 2 * NumChannels
  /\ trace[3].op = "Pong"

\* C17: a successfully read message whose command is neither PING nor ERROR
\* changes lastActivityTime only: the log and the connection are as before
\* and the iteration ends without another library call.
C17_OtherCommandIgnored ==
  [][(pc = "ReadMessage" /\ StepEv.err = ""
        /\ StepEv.cmd \notin {"PING", "ERROR"}) =>
       /\ lastActivityTime' = now'
       /\ errors' = errors
       /\ connected' = connected
       /\ registered' = registered
       /\ trace' = Append(trace, StepEv)
       /\ Len(trace') = 2
       /\ pc' = "sleep"]_vars

C17_Witness ==
  /\ pc = "sleep"
  /\ MainIteration
  /\ Len(trace) = 2
  /\ trace[2].cmd = "NOTICE"
  /\ connected
  /\ Len(errors) = 1

\* C18: no entry of the log is delivered to the same channel more than
\* once, over any sequence of flushes.
C18_AtMostOnce ==
  /\ \A j \in 1..Len(delivTo) : \A c \in 1..NumChannels : delivTo[j][c] <= 1
  /\ \A j \in 1..Len(dropped) : \A c \in 1..NumChannels : dropped[j][c] <= 1

\* The session is connected and has been silent for longer than waitPeriod
LongSilence ==
  /\ connected
  /\ pc \in {"sleep", "ReadMessage"}
  /\ now - lastActivityTime > WaitPeriod

\* C13: while the reads of a connected session fail, lastActivityTime
\* stays as it is, so the silence grows with the clock; a read that fails once
\* the silence is longer than waitPeriod closes the connection; and a session
\* silent for longer than waitPeriod eventually is either heard from again
\* (a read succeeds) or closed with the next iteration calling connect.
C13_SilenceReconnects ==
  /\ [][(pc = "ReadMessage" /\ StepEv.err # "") =>
          /\ lastActivityTime' = lastActivityTime
          /\ (now' - lastActivityTime > WaitPeriod) => ~connected']_vars
  /\ [][(pc = "sleep" /\ ~connected) => pc' = "Connect"]_vars
  /\ LongSilence ~> (pc = "Connect" \/ lastActivityTime = now)

C13_Witness ==
  /\ pc = "sleep"
  /\ MainIteration
  /\ ~connected
  /\ trace[2].err = "i/o timeout"
  /\ now - lastActivityTime > WaitPeriod

\* The comma-separated items of a text v, by position: an item starts at the
\* beginning of v or right after a comma and ends before the next comma
ItemStarts(v) == {a \in 1..(Len(v) + 1) : a = 1 \/ v[a - 1] = ","}

ItemEnd(v, a) ==
  CHOOSE b \in (a - 1)..Len(v) :
    /\ b = Len(v) \/ v[b + 1] = ","
    /\ \A q \in a..b : v[q] # ","

\* The positions of an item that hold something other than a space
Ink(v, a) == {q \in a..ItemEnd(v, a) : v[q] # " "}

MinOf(S) == CHOOSE x \in S : \A y \in S : x <= y

MaxOf(S) == CHOOSE x \in S : \A y \in S : x >= y

\* The items that are not empty or blank, and the text of one without the
\* spaces around it
InkedItems(v) == {a \in ItemStarts(v) : Ink(v, a) # {}}

ItemText(v, a) == SubSeq(v, MinOf(Ink(v, a)), MaxOf(Ink(v, a)))

ConfigParsed == pc \in {"run", "fatal"}

\* C14 as stated: a file is accepted only if every comma-separated item of
\* the channels value, empty and blank items included, starts with '#'.
C14_EveryItemHash ==
  (ConfigParsed /\ confOut.err = "") =>
    \A a \in ItemStarts(confIn) :
       Ink(confIn, a) # {} /\ confIn[MinOf(Ink(confIn, a))] = "#"

\* C14, amended: empty and blank items are skipped; a file is accepted
\* exactly when every other item starts with '#' (spaces around it aside) and
\* there is at least one; the accepted Config holds these items, without the
\* spaces around them, in listed order.
C14_ChannelsParsed ==
  ConfigParsed =>
    LET v == confIn
        items == InkedItems(v)
    IN  /\ confOut.err = "" <=>
             /\ items # {}
             /\ \A a \in items : v[MinOf(Ink(v, a))] = "#"
        /\ confOut.err = "" =>
             /\ Len(confOut.channels) = Cardinality(items)
             /\ Len(confOut.channels) >= 1
             /\ \A a \in items :
                  LET k == Cardinality({a2 \in items : a2 <= a})
                  IN  /\ confOut.channels[k] = ItemText(v, a)
                      /\ confOut.channels[k][1] = "#"

C14_Witness ==
  /\ pc = "run"
  /\ confIn = <<"#", ",", ",", "#">>
  /\ confOut.channels = << <<"#">>, <<"#">> >>

PongFailed ==
  MainIteration /\ \E p \in 1..Len(trace) :
                      trace[p].op = "Pong" /\ trace[p].err # ""

FlushFailed ==
  MainIteration /\ \E p \in 1..Len(trace) :
                      trace[p].op = "Message" /\ trace[p].err # ""

\* C19: a failed Pong or a failed flush closes the connection only if
\* more than waitPeriod has passed since the latest successful ReadMessage,
\* Pong or Message of that same iteration (the read, for a failed Pong; the
\* Pong or the latest delivery, for a failed flush), however long the
\* session had been silent when the iteration began.
C19_GiveUpSinceLastSuccess ==
  (pc = "sleep" /\ (PongFailed \/ FlushFailed)) =>
    /\ okAt # NoTime
    /\ HasEv(trace, "Close") <=> now - okAt > WaitPeriod
    /\ connected <=> now - okAt <= WaitPeriod

C19_Witness ==
  /\ pc = "sleep"
  /\ PongFailed
  /\ okAt - iterLast > WaitPeriod
  /\ now = okAt
  /\ connected

\* C20: in every iteration that finds the handle connected, and whenever
\* the give-up decision is taken, lastActivityTime is at or after the time the
\* latest connect returned nil; it is never the zero value or a time of an
\* earlier session.
C20_FreshTimestamp ==
  (MainIteration \/ (pc = "sleep" /\ connected) \/ giveUp # "none") =>
    /\ connAt # NoTime
    /\ lastActivityTime >= connAt
    /\ lastActivityTime # ZeroTime

C20_Witness ==
  /\ MainIteration
  /\ pc = "sleep"
  /\ giveUp = "false"
  /\ lastActivityTime = connAt
  /\ connAt > StartTime
  /\ Len(errors) = 2

====
